---- MODULE Spec2Model ----
(***************************************************************************)
(* Model of pythonProject/script.py: a CSV filter/aggregate command line   *)
(* tool.  Python str values are sequences of one-character strings, rows   *)
(* are functions from column names to cells, lists are sequences.          *)
(***************************************************************************)
EXTENDS Integers, Sequences, FiniteSets, TLC

VARIABLES
    fn,               \* the function under call ("main" for the driver)
    condition_str,    \* argument of parse_condition / apply_filter
    aggregation_str,  \* argument of parse_aggregation / apply_aggregation
    data,             \* the list of rows passed in (main: the rows read)
    ret,              \* outcome of the call: a return value or an exception
    pc,               \* main: position in the driver
    file_path,        \* main: what opening args.file will do
    where,            \* main: args.where (NoneArg when absent)
    aggregate,        \* main: args.aggregate (NoneArg when absent)
    filtered_data,    \* main: local filtered_data
    stdout,           \* main: what print() wrote, in order
    stderr,           \* main: what the interpreter wrote on exit, in order
    status            \* main: process exit status (-1 while running)

vars == <<fn, condition_str, aggregation_str, data, ret,
          pc, file_path, where, aggregate, filtered_data, stdout, stderr, status>>

callVars == <<fn, condition_str, aggregation_str, data, ret>>
mainVars == <<pc, file_path, where, aggregate, filtered_data, stdout, stderr, status>>

(***************************************************************************)
(* Bounds of the explored inputs.                                          *)
(***************************************************************************)
MaxLen == 4      \* longest condition string given to parse_condition
MaxFrags == 4    \* most fragments concatenated into an aggregation string
MaxRows == 2     \* most rows of a dataset

(***************************************************************************)
(* Python str primitives, restricted to the characters the model uses.     *)
(***************************************************************************)
\* ord(c): the code point, which orders str comparison.
Ord(c) ==
    CASE c = " " -> 32
      [] c = "1" -> 49
      [] c = "2" -> 50
      [] c = "<" -> 60
      [] c = "=" -> 61
      [] c = ">" -> 62
      [] c = "A" -> 65
      [] c = "G" -> 71
      [] c = "I" -> 73
      [] c = "M" -> 77
      [] c = "N" -> 78
      [] c = "V" -> 86
      [] c = "a" -> 97
      [] c = "b" -> 98
      [] c = "c" -> 99
      [] c = "g" -> 103
      [] c = "i" -> 105
      [] c = "m" -> 109
      [] c = "n" -> 110
      [] c = "s" -> 115
      [] c = "u" -> 117
      [] c = "v" -> 118
      [] c = "x" -> 120

\* str.lower() on one character.
LowerChar(c) ==
    CASE c = "A" -> "a"
      [] c = "G" -> "g"
      [] c = "I" -> "i"
      [] c = "M" -> "m"
      [] c = "N" -> "n"
      [] c = "V" -> "v"
      [] OTHER -> c

lower(s) == [i \in 1..Len(s) |-> LowerChar(s[i])]

IsSpace(c) == c = " "

RECURSIVE lstrip(_)
lstrip(s) == IF s # <<>> /\ IsSpace(Head(s)) THEN lstrip(Tail(s)) ELSE s

RECURSIVE rstrip(_)
rstrip(s) ==
    IF s # <<>> /\ IsSpace(s[Len(s)]) THEN rstrip(SubSeq(s, 1, Len(s) - 1)) ELSE s

\* str.strip()
strip(s) == rstrip(lstrip(s))

\* sub occurs in s starting at index i (1-based).
OccursAt(s, sub, i) ==
    /\ i >= 1
    /\ i + Len(sub) - 1 <= Len(s)
    /\ SubSeq(s, i, i + Len(sub) - 1) = sub

\* str.find(): index of the first occurrence of sub in s, 0 when there is none.
RECURSIVE FindFrom(_, _, _)
FindFrom(s, sub, i) ==
    IF i + Len(sub) - 1 > Len(s) THEN 0
    ELSE IF OccursAt(s, sub, i) THEN i
    ELSE FindFrom(s, sub, i + 1)

find(s, sub) == FindFrom(s, sub, 1)

\* `sub in s`
contains(s, sub) == find(s, sub) # 0

\* s.split(sep, 1): the list of parts, cut at the first occurrence of sep.
split(s, sep) ==
    LET i == find(s, sep) IN
    IF i = 0 THEN <<s>>
    ELSE <<SubSeq(s, 1, i - 1), SubSeq(s, i + Len(sep), Len(s))>>

IsDigit(c) == c \in {"1", "2"}

DigitVal(c) == IF c = "1" THEN 1 ELSE 2

RECURSIVE DecimalValue(_)
DecimalValue(s) ==
    IF s = <<>> THEN 0
    ELSE 10 * DecimalValue(SubSeq(s, 1, Len(s) - 1)) + DigitVal(s[Len(s)])

\* float(s): surrounding whitespace is ignored, then the text must be a number.
\* Over the model's characters (no sign, point, exponent, underscore, "inf",
\* "nan") the numbers are the non-empty digit strings.  ok = FALSE is ValueError.
float(s) ==
    LET t == strip(s) IN
    IF t # <<>> /\ \A i \in 1..Len(t) : IsDigit(t[i])
    THEN [ok |-> TRUE, num |-> DecimalValue(t)]
    ELSE [ok |-> FALSE, num |-> 0]

\* Python's a < b on str: lexicographic by code point.
RECURSIVE StrLt(_, _)
StrLt(a, b) ==
    IF b = <<>> THEN FALSE
    ELSE IF a = <<>> THEN TRUE
    ELSE IF Ord(Head(a)) < Ord(Head(b)) THEN TRUE
    ELSE IF Ord(Head(a)) > Ord(Head(b)) THEN FALSE
    ELSE StrLt(Tail(a), Tail(b))

(***************************************************************************)
(* Outcomes of a call.                                                     *)
(***************************************************************************)
Pending == [kind |-> "pending", value |-> <<>>, error |-> "none", arg |-> <<>>]
Return(v) == [kind |-> "return", value |-> v, error |-> "none", arg |-> <<>>]
Raise(k, e, a) == [kind |-> k, value |-> <<>>, error |-> e, arg |-> a]

(***************************************************************************)
(* parse_condition                                                         *)
(***************************************************************************)
\* operators with the one-character tokens tried before the two-character ones.
operators_single_first ==
    << <<">">>, <<"<">>, <<">", "=">>, <<"<", "=">>, <<"=", "=">>, <<"=">> >>

operators == << <<">", "=">>, <<"<", "=">>, <<">">>, <<"<">>, <<"=", "=">>, <<"=">> >>

\* The body of `for op in operators`, from the k-th operator on.
RECURSIVE parse_condition_from(_, _)
parse_condition_from(s, k) ==
    IF k > Len(operators) THEN Raise("ValueError", "MalformedCondition", s)
    ELSE LET op == operators[k] IN
         IF contains(s, op)
         THEN LET parts == split(s, op) IN
              IF Len(parts) = 2
              THEN Return(<<strip(parts[1]),
                            IF op = <<"=">> THEN <<"=", "=">> ELSE op,
                            strip(parts[2])>>)
              ELSE parse_condition_from(s, k + 1)
         ELSE parse_condition_from(s, k + 1)

parse_condition(s) == parse_condition_from(s, 1)

(***************************************************************************)
(* parse_aggregation                                                       *)
(***************************************************************************)
supported_functions == {<<"a", "v", "g">>, <<"m", "i", "n">>, <<"m", "a", "x">>}

\* parse_aggregation without the .lower() of the function name.
parse_aggregation_case_sensitive(s) ==
    IF ~contains(s, <<"=">>) THEN Raise("ValueError", "MalformedAggregation", s)
    ELSE LET parts == split(s, <<"=">>)
             func_name == strip(parts[1])
             column == strip(parts[2])
         IN IF func_name \notin supported_functions
            THEN Raise("ValueError", "UnsupportedFunction", func_name)
            ELSE Return(<<func_name, column>>)

parse_aggregation(s) ==
    IF ~contains(s, <<"=">>) THEN Raise("ValueError", "MalformedAggregation", s)
    ELSE LET parts == split(s, <<"=">>)
             func_name == lower(strip(parts[1]))
             column == strip(parts[2])
         IN IF func_name \notin supported_functions
            THEN Raise("ValueError", "UnsupportedFunction", func_name)
            ELSE Return(<<func_name, column>>)

(***************************************************************************)
(* apply_filter                                                            *)
(***************************************************************************)
\* `value = float(value_str)`, or the string itself on ValueError.
coerce_value(value_str) ==
    LET f == float(value_str) IN
    [isfloat |-> f.ok, num |-> f.num, str |-> value_str]

\* Python's cell_value > value, cell_value < value and cell_value == value, on
\* two floats when the value is a float and on two str otherwise.
\* cell_gt that orders numbers only: a str value is greater than nothing.
cell_gt_floats_only(cell_value, value) ==
    IF value.isfloat THEN float(cell_value).num > value.num
    ELSE FALSE

cell_gt(cell_value, value) ==
    IF value.isfloat THEN float(cell_value).num > value.num
    ELSE StrLt(value.str, cell_value)

cell_lt(cell_value, value) ==
    IF value.isfloat THEN float(cell_value).num < value.num
    ELSE StrLt(cell_value, value.str)

cell_eq(cell_value, value) ==
    IF value.isfloat THEN float(cell_value).num = value.num
    ELSE cell_value = value.str

\* row_matches with >= and <= taken as the strict comparisons.
row_matches_strict(operator, cell_value, value) ==
    CASE operator = <<">">> -> cell_gt(cell_value, value)
      [] operator = <<"<">> -> cell_lt(cell_value, value)
      [] operator = <<">", "=">> -> cell_gt(cell_value, value)
      [] operator = <<"<", "=">> -> cell_lt(cell_value, value)
      [] operator = <<"=", "=">> -> cell_eq(cell_value, value)
      [] OTHER -> FALSE

\* The if/elif chain that applies the comparison operator to one row.
row_matches(operator, cell_value, value) ==
    CASE operator = <<">">> -> cell_gt(cell_value, value)
      [] operator = <<"<">> -> cell_lt(cell_value, value)
      [] operator = <<">", "=">> -> cell_gt(cell_value, value) \/ cell_eq(cell_value, value)
      [] operator = <<"<", "=">> -> cell_lt(cell_value, value) \/ cell_eq(cell_value, value)
      [] operator = <<"=", "=">> -> cell_eq(cell_value, value)
      [] OTHER -> FALSE

\* filter_rows that skips a row whose cell is not a number instead of exiting.
RECURSIVE filter_rows_skip_bad(_, _, _, _, _, _)
filter_rows_skip_bad(rows, i, column, operator, value, kept) ==
    IF i > Len(rows) THEN Return(kept)
    ELSE LET row == rows[i]
             cell_value == row[column]
         IN IF value.isfloat /\ ~float(cell_value).ok
            THEN filter_rows_skip_bad(rows, i + 1, column, operator, value, kept)
            ELSE filter_rows_skip_bad(rows, i + 1, column, operator, value,
                                      IF row_matches(operator, cell_value, value)
                                      THEN Append(kept, row) ELSE kept)

\* `for row in data`, from row i on, with the rows kept so far.
RECURSIVE filter_rows(_, _, _, _, _, _)
filter_rows(rows, i, column, operator, value, kept) ==
    IF i > Len(rows) THEN Return(kept)
    ELSE LET row == rows[i]
             cell_value == row[column]
         IN IF value.isfloat /\ ~float(cell_value).ok
            THEN Raise("SystemExit", "NonNumericCell", cell_value)
            ELSE filter_rows(rows, i + 1, column, operator, value,
                             IF row_matches(operator, cell_value, value)
                             THEN Append(kept, row) ELSE kept)

\* apply_filter without the column check: row[column] raises KeyError.
apply_filter_no_column_check(rows, s) ==
    LET parsed == parse_condition(s) IN
    IF parsed.kind = "ValueError" THEN Raise("SystemExit", parsed.error, s)
    ELSE LET column == parsed.value[1]
             operator == parsed.value[2]
             value_str == parsed.value[3]
         IN IF rows = <<>> THEN Return(<<>>)
            ELSE IF column \notin DOMAIN rows[1]
            THEN Raise("KeyError", "KeyError", column)
            ELSE filter_rows(rows, 1, column, operator, coerce_value(value_str), <<>>)

apply_filter(rows, s) ==
    LET parsed == parse_condition(s) IN
    IF parsed.kind = "ValueError" THEN Raise("SystemExit", parsed.error, s)
    ELSE LET column == parsed.value[1]
             operator == parsed.value[2]
             value_str == parsed.value[3]
         IN IF rows = <<>> THEN Raise("IndexError", "list index out of range", <<>>)
            ELSE IF column \notin DOMAIN rows[1]
            THEN Raise("SystemExit", "UnknownColumn", column)
            ELSE filter_rows(rows, 1, column, operator, coerce_value(value_str), <<>>)

(***************************************************************************)
(* apply_aggregation                                                       *)
(***************************************************************************)
\* A float result as the exact fraction num/den.
Float(n, d) == [num |-> n, den |-> d]

RECURSIVE Sum(_)
Sum(values) == IF values = <<>> THEN 0 ELSE Head(values) + Sum(Tail(values))

Min(values) == CHOOSE v \in {values[i] : i \in 1..Len(values)} :
                   \A j \in 1..Len(values) : v <= values[j]

Max(values) == CHOOSE v \in {values[i] : i \in 1..Len(values)} :
                   \A j \in 1..Len(values) : v >= values[j]

\* The code after the loop: the empty-list guard, then the function.
aggregate_values(func_name, values) ==
    IF values = <<>> THEN Float(0, 1)
    ELSE CASE func_name = <<"a", "v", "g">> -> Float(Sum(values), Len(values))
           [] func_name = <<"m", "i", "n">> -> Float(Min(values), 1)
           [] func_name = <<"m", "a", "x">> -> Float(Max(values), 1)
           [] OTHER -> Float(0, 1)

\* `for row in data`, from row i on, with the values collected so far.
RECURSIVE collect_values(_, _, _, _, _)
collect_values(rows, i, func_name, column, values) ==
    IF i > Len(rows) THEN Return(aggregate_values(func_name, values))
    ELSE LET f == float(rows[i][column]) IN
         IF ~f.ok THEN Raise("SystemExit", "NonNumericColumn", rows[i][column])
         ELSE collect_values(rows, i + 1, func_name, column, Append(values, f.num))

apply_aggregation(rows, s) ==
    LET parsed == parse_aggregation(s) IN
    IF parsed.kind = "ValueError" THEN Raise("SystemExit", parsed.error, s)
    ELSE LET func_name == parsed.value[1]
             column == parsed.value[2]
         IN IF rows = <<>> THEN Raise("IndexError", "list index out of range", <<>>)
            ELSE IF column \notin DOMAIN rows[1]
            THEN Raise("SystemExit", "UnknownColumn", column)
            ELSE collect_values(rows, 1, func_name, column, <<>>)

(***************************************************************************)
(* The inputs explored.                                                    *)
(***************************************************************************)
Alphabet == {" ", "1", "2", "<", "=", ">", "a", "b"}

\* Every string over Alphabet of at most MaxLen characters.
CondStrings == UNION {[1..n -> Alphabet] : n \in 0..MaxLen}

AggFragments ==
    {<<"a", "v", "g">>, <<"M", "I", "N">>, <<"M", "a", "x">>, <<"s", "u", "m">>,
     <<" ">>, <<"=">>, <<"c">>}

RECURSIVE Concat(_)
Concat(frags) == IF frags = <<>> THEN <<>> ELSE Head(frags) \o Concat(Tail(frags))

\* Every concatenation of at most MaxFrags fragments.
AggStrings == {Concat(fs) : fs \in UNION {[1..n -> AggFragments] : n \in 0..MaxFrags}}

\* Rows of a CSV file with the header a,b.
Header == {<<"a">>, <<"b">>}
CellsA == {<<"2">>, <<"1", "2">>, <<" ", "1">>, <<"b">>}
CellsB == {<<"a">>, <<"a", "b">>}
Rows == {(<<"a">> :> x) @@ (<<"b">> :> y) : x \in CellsA, y \in CellsB}
Datasets == UNION {[1..n -> Rows] : n \in 0..MaxRows}

\* Filter expressions given to apply_filter: column, operator text and value,
\* those on column a also with blanks around the operator, and two without any
\* operator.
FilterColumns == {<<"a">>, <<"b">>, <<"c">>, <<>>}
FilterOps == {<<">", "=">>, <<"<", "=">>, <<">">>, <<"<">>, <<"=", "=">>, <<"=">>,
              <<">", ">">>}
FilterValues == {<<"1">>, <<"2">>, <<"1", "2">>, <<"a">>, <<"a", "b">>, <<>>}
Blanks == {<<>>, <<" ">>}
FilterExprs ==
    {c \o o \o v : c \in FilterColumns, o \in FilterOps, v \in FilterValues}
    \cup {<<"a", " ">> \o o \o <<" ">> \o v : o \in FilterOps, v \in FilterValues}
    \cup {<<"a">>, <<"a", " ", "1">>}

\* Aggregation expressions given to apply_aggregation.
AggExprs ==
    {f \o p \o <<"=">> \o p \o c :
         f \in {<<"a", "v", "g">>, <<"m", "i", "n">>, <<"m", "a", "x">>,
                <<"M", "a", "x">>, <<"s", "u", "m">>},
         p \in Blanks, c \in {<<"a">>, <<"b">>, <<"c">>, <<>>}}
    \cup {<<"a", "v", "g">>, <<"a">>}

(***************************************************************************)
(* Calls of the four functions, one at a time: the initial state draws the *)
(* function and its arguments, the action runs it.  Spec calls the two     *)
(* parsers, SpecApply calls apply_filter and apply_aggregation.            *)
(***************************************************************************)
MainIdle ==
    /\ pc = "idle"
    /\ file_path = "none"
    /\ where = [given |-> FALSE, str |-> <<>>]
    /\ aggregate = [given |-> FALSE, str |-> <<>>]
    /\ filtered_data = <<>>
    /\ stdout = <<>>
    /\ stderr = <<>>
    /\ status = -1

Init ==
    /\ MainIdle
    /\ ret = Pending
    /\ fn \in {"parse_condition", "parse_aggregation"}
    /\ condition_str \in IF fn = "parse_condition" THEN CondStrings ELSE {<<>>}
    /\ aggregation_str \in IF fn = "parse_aggregation" THEN AggStrings ELSE {<<>>}
    /\ data = <<>>

InitApply ==
    /\ MainIdle
    /\ ret = Pending
    /\ fn \in {"apply_filter", "apply_aggregation"}
    /\ condition_str \in IF fn = "apply_filter" THEN FilterExprs ELSE {<<>>}
    /\ aggregation_str \in IF fn = "apply_aggregation" THEN AggExprs ELSE {<<>>}
    /\ data \in Datasets

CallParseCondition ==
    /\ fn = "parse_condition"
    /\ ret = Pending
    /\ ret' = parse_condition(condition_str)
    /\ UNCHANGED <<fn, condition_str, aggregation_str, data, mainVars>>

CallParseAggregation ==
    /\ fn = "parse_aggregation"
    /\ ret = Pending
    /\ ret' = parse_aggregation(aggregation_str)
    /\ UNCHANGED <<fn, condition_str, aggregation_str, data, mainVars>>

CallApplyFilter ==
    /\ fn = "apply_filter"
    /\ ret = Pending
    /\ ret' = apply_filter(data, condition_str)
    /\ UNCHANGED <<fn, condition_str, aggregation_str, data, mainVars>>

CallApplyAggregation ==
    /\ fn = "apply_aggregation"
    /\ ret = Pending
    /\ ret' = apply_aggregation(data, aggregation_str)
    /\ UNCHANGED <<fn, condition_str, aggregation_str, data, mainVars>>

Next ==
    \/ CallParseCondition
    \/ CallParseAggregation

Spec == Init /\ [][Next]_vars

NextApply ==
    \/ CallApplyFilter
    \/ CallApplyAggregation

SpecApply == InitApply /\ [][NextApply]_vars

(***************************************************************************)
(* main: the command line driver, one action per block of the function.    *)
(***************************************************************************)
NoneArg == [given |-> FALSE, str |-> <<>>]
Arg(s) == [given |-> TRUE, str |-> s]

\* Python truthiness of an optional str argument: given and not empty.
Truthy(a) == a.given /\ a.str # <<>>

WhereArgs ==
    {NoneArg, Arg(<<>>),
     Arg(<<"a", ">", "1">>), Arg(<<"a", ">", "1", "2">>), Arg(<<"a", "<", "=", "2">>),
     Arg(<<"b", "=", "=", "a">>), Arg(<<"b", ">", "a">>), Arg(<<"a", ">", ">", "1">>),
     Arg(<<"c", ">", "1">>), Arg(<<"a">>)}

AggregateArgs ==
    {NoneArg, Arg(<<>>),
     Arg(<<"a", "v", "g", "=", "a">>), Arg(<<"m", "i", "n", "=", "a">>),
     Arg(<<"M", "a", "x", " ", "=", " ", "a">>), Arg(<<"a", "v", "g", "=", "b">>),
     Arg(<<"a", "v", "g", "=", "c">>), Arg(<<"s", "u", "m", "=", "a">>),
     Arg(<<"a", "v", "g">>)}

InitMain ==
    /\ fn = "main"
    /\ condition_str = <<>>
    /\ aggregation_str = <<>>
    /\ ret = Pending
    /\ pc = "open"
    /\ file_path \in {"ok", "missing", "unreadable"}
    /\ data \in IF file_path = "ok" THEN Datasets ELSE {<<>>}
    /\ where \in WhereArgs
    /\ aggregate \in AggregateArgs
    /\ filtered_data = <<>>
    /\ stdout = <<>>
    /\ stderr = <<>>
    /\ status = -1

\* What the interpreter does with an exception that leaves main: sys.exit(text)
\* writes the text to stderr, any other exception writes a traceback; both end
\* the process with status 1.
ExitLine(o) ==
    IF o.kind = "SystemExit"
    THEN [kind |-> "message", error |-> o.error, arg |-> o.arg]
    ELSE [kind |-> "traceback", error |-> o.kind, arg |-> o.arg]

\* with open(...): data = list(reader), or sys.exit on a failure to read.
OpenFile ==
    /\ pc = "open"
    /\ IF file_path = "ok"
       THEN /\ pc' = "loaded"
            /\ UNCHANGED <<stderr, status>>
       ELSE /\ pc' = "done"
            /\ stderr' = Append(stderr,
                   ExitLine(Raise("SystemExit",
                                  IF file_path = "missing" THEN "FileNotFound"
                                  ELSE "ReadError", <<>>)))
            /\ status' = 1
    /\ UNCHANGED <<callVars, file_path, where, aggregate, filtered_data, stdout>>

\* if not data: print(...); return
EmptyFile ==
    /\ pc = "loaded"
    /\ data = <<>>
    /\ stdout' = Append(stdout, [kind |-> "info", text |-> "no data"])
    /\ status' = 0
    /\ pc' = "done"
    /\ UNCHANGED <<callVars, file_path, where, aggregate, filtered_data, stderr>>

\* filtered_data = data; if args.where: filtered_data = apply_filter(...)
Filter ==
    /\ pc = "loaded"
    /\ data # <<>>
    /\ LET o == IF Truthy(where) THEN apply_filter(data, where.str) ELSE Return(data) IN
       IF o.kind = "return"
       THEN /\ filtered_data' = o.value
            /\ pc' = "output"
            /\ UNCHANGED <<stderr, status>>
       ELSE /\ stderr' = Append(stderr, ExitLine(o))
            /\ status' = 1
            /\ pc' = "done"
            /\ UNCHANGED filtered_data
    /\ UNCHANGED <<callVars, file_path, where, aggregate, stdout>>

\* if args.aggregate: result = apply_aggregation(...); parse again; print the line
Aggregate ==
    /\ pc = "output"
    /\ Truthy(aggregate)
    /\ LET o == apply_aggregation(filtered_data, aggregate.str)
           parsed == parse_aggregation(aggregate.str)
       IN IF o.kind = "return"
          THEN /\ stdout' = Append(stdout,
                       [kind |-> "aggregate",
                        func_name |-> parsed.value[1],
                        column |-> parsed.value[2],
                        result |-> o.value,
                        format |-> IF parsed.value[1] = <<"a", "v", "g">>
                                   THEN ".3f" ELSE "str"])
               /\ status' = 0
               /\ UNCHANGED stderr
          ELSE /\ stderr' = Append(stderr, ExitLine(o))
               /\ status' = 1
               /\ UNCHANGED stdout
    /\ pc' = "done"
    /\ UNCHANGED <<callVars, file_path, where, aggregate, filtered_data>>

\* else: print(tabulate(filtered_data, ...))
PrintTable ==
    /\ pc = "output"
    /\ ~Truthy(aggregate)
    /\ stdout' = Append(stdout, [kind |-> "table", rows |-> filtered_data])
    /\ status' = 0
    /\ pc' = "done"
    /\ UNCHANGED <<callVars, file_path, where, aggregate, filtered_data, stderr>>

NextMain ==
    \/ OpenFile
    \/ EmptyFile
    \/ Filter
    \/ Aggregate
    \/ PrintTable

SpecMain == InitMain /\ [][NextMain]_vars

(***************************************************************************)
(* Properties.  The helpers below restate, without the operators of the    *)
(* model, what trimming, substring search, numbers and string order are.   *)
(***************************************************************************)
SetMin(S) == CHOOSE x \in S : \A y \in S : x <= y
SetMax(S) == CHOOSE x \in S : \A y \in S : x >= y

\* s without its leading and trailing blanks.
Trimmed(s) ==
    LET solid == {i \in 1..Len(s) : s[i] # " "} IN
    IF solid = {} THEN <<>> ELSE SubSeq(s, SetMin(solid), SetMax(solid))

TokenAt(s, tok, i) ==
    /\ i + Len(tok) - 1 <= Len(s)
    /\ \A j \in 1..Len(tok) : s[i + j - 1] = tok[j]

Occurs(s, tok) == \E i \in 1..Len(s) : TokenAt(s, tok, i)

FirstAt(s, tok) == SetMin({i \in 1..Len(s) : TokenAt(s, tok, i)})

PriorityList ==
    << <<">", "=">>, <<"<", "=">>, <<">">>, <<"<">>, <<"=", "=">>, <<"=">> >>

ComparisonOps == {<<">">>, <<"<">>, <<">", "=">>, <<"<", "=">>, <<"=", "=">>}
OrderingOps == {<<">">>, <<"<">>, <<">", "=">>, <<"<", "=">>}

\* The text is a number: digits only, blanks around them allowed.
IsNumeral(s) ==
    /\ Trimmed(s) # <<>>
    /\ \A i \in 1..Len(Trimmed(s)) : Trimmed(s)[i] \in {"1", "2"}

RECURSIVE Pow10(_)
Pow10(n) == IF n = 0 THEN 1 ELSE 10 * Pow10(n - 1)

RECURSIVE PlaceSum(_, _)
PlaceSum(t, i) ==
    IF i > Len(t) THEN 0
    ELSE (IF t[i] = "1" THEN 1 ELSE 2) * Pow10(Len(t) - i) + PlaceSum(t, i + 1)

NumeralValue(s) == PlaceSum(Trimmed(s), 1)

\* a sorts before b: at the first difference a has the smaller code point, or a
\* is a proper prefix of b.
LexLess(a, b) ==
    \E k \in 0..Len(a) :
        /\ k <= Len(b)
        /\ \A j \in 1..k : a[j] = b[j]
        /\ \/ k = Len(a) /\ k < Len(b)
           \/ k < Len(a) /\ k < Len(b) /\ Ord(a[k + 1]) < Ord(b[k + 1])

\* The condition `cell operator value`, compared as numbers.
NumericSat(operator, cell, v) ==
    LET c == NumeralValue(cell)
        n == NumeralValue(v)
    IN CASE operator = <<">">> -> c > n
         [] operator = <<"<">> -> c < n
         [] operator = <<">", "=">> -> c >= n
         [] operator = <<"<", "=">> -> c <= n
         [] operator = <<"=", "=">> -> c = n

\* The condition `cell operator value`, compared as strings in lexicographic order.
LexSat(operator, cell, v) ==
    CASE operator = <<">">> -> LexLess(v, cell)
      [] operator = <<"<">> -> LexLess(cell, v)
      [] operator = <<">", "=">> -> LexLess(v, cell) \/ cell = v
      [] operator = <<"<", "=">> -> LexLess(cell, v) \/ cell = v
      [] operator = <<"=", "=">> -> cell = v

\* The condition on a str value as string equality only: no ordering of strings.
EqualityOnlySat(operator, cell, v) == operator = <<"=", "=">> /\ cell = v

\* The state after a call of the named function.
Called(f) == fn = f /\ ret.kind # "pending"

\* The condition and the aggregation the call's expression parses to.
Cond == parse_condition(condition_str)
Agg == parse_aggregation(aggregation_str)

\* apply_filter ran its loop: the expression parsed and names a column of the rows.
FilterRan ==
    /\ Called("apply_filter")
    /\ Cond.kind = "return"
    /\ data # <<>>
    /\ Cond.value[1] \in DOMAIN data[1]

AggregationRan ==
    /\ Called("apply_aggregation")
    /\ Agg.kind = "return"
    /\ data # <<>>
    /\ Agg.value[2] \in DOMAIN data[1]

(***************************************************************************)
(* C1: apply_aggregation on an empty dataset with a well-formed expression *)
(* avg=c, min=c or max=c returns 0.0 and does not fail.                    *)
(* Stated as the claim has it; the code reads data[0] first.               *)
(***************************************************************************)
C1_EmptyDatasetYieldsZero ==
    (Called("apply_aggregation") /\ data = <<>> /\ Agg.kind = "return"
         /\ Agg.value[2] # <<>>)
        => ret.kind = "return" /\ ret.value = Float(0, 1)

(***************************************************************************)
(* C2 as stated: with a comparison value that is not a number, a condition *)
(* using >, <, >= or <= returns an empty result, and == selects exactly    *)
(* the rows whose cell equals the value.  Stated for expressions with a    *)
(* value, so that an empty value plays no part in its refutation.          *)
(***************************************************************************)
C2_OrderingOnStringsSelectsNothing ==
    (FilterRan /\ ~IsNumeral(Cond.value[3]) /\ Cond.value[3] # <<>>)
        => /\ ret.kind = "return"
           /\ Cond.value[2] \in OrderingOps => ret.value = <<>>
           /\ \A i \in 1..Len(ret.value) :
                  ret.value[i][Cond.value[1]] = Cond.value[3]

(***************************************************************************)
(* C2 amended: with a comparison value that is not a number the call       *)
(* returns, and a row is selected exactly when its cell, compared with the *)
(* trimmed value as a string, satisfies the operator: == by equality, and  *)
(* >, <, >=, <= by lexicographic (code point) order.                       *)
(***************************************************************************)
C2_StringValueComparesLexicographically ==
    (FilterRan /\ ~IsNumeral(Cond.value[3]))
        => /\ ret.kind = "return"
           /\ LET Selected(row) ==
                      LexSat(Cond.value[2], row[Cond.value[1]], Cond.value[3])
              IN /\ \A i \in 1..Len(ret.value) : Selected(ret.value[i])
                 /\ Len(ret.value) = Cardinality({i \in 1..Len(data) : Selected(data[i])})

\* An ordering condition on a string value that selected a row.
C2_Witness ==
    /\ FilterRan
    /\ ~IsNumeral(Cond.value[3])
    /\ Cond.value[2] \in OrderingOps
    /\ ret.kind = "return"
    /\ ret.value # <<>>

(***************************************************************************)
(* C3: on a non-empty dataset a filter expression with a doubled '>' never *)
(* returns a dataset: the call ends in a fatal error.                      *)
(* Stated as the claim has it, for expressions with text on both sides of  *)
(* the doubled '>'.                                                        *)
(***************************************************************************)
C3_DoubledGreaterIsFatal ==
    (/\ Called("apply_filter")
     /\ data # <<>>
     /\ Occurs(condition_str, <<">", ">">>)
     /\ LET i == FirstAt(condition_str, <<">", ">">>) IN
        /\ Trimmed(SubSeq(condition_str, 1, i - 1)) # <<>>
        /\ Trimmed(SubSeq(condition_str, i + 2, Len(condition_str))) # <<>>)
        => ret.kind = "SystemExit"

(***************************************************************************)
(* C4 as stated: when apply_filter succeeds the result is the rows, in     *)
(* order, whose cell satisfies the condition: numeric comparison when the  *)
(* value is a number, string equality otherwise.  Stated for expressions   *)
(* with a value, so that an empty value plays no part in its refutation.   *)
(***************************************************************************)
C4_SelectsByNumberOrEquality ==
    (Called("apply_filter") /\ ret.kind = "return" /\ Cond.value[3] # <<>>)
        => LET Sat(row) ==
                   IF IsNumeral(Cond.value[3])
                   THEN NumericSat(Cond.value[2], row[Cond.value[1]], Cond.value[3])
                   ELSE EqualityOnlySat(Cond.value[2], row[Cond.value[1]], Cond.value[3])
           IN ret.value = SelectSeq(data, Sat)

(***************************************************************************)
(* C4 amended: when apply_filter succeeds the result is the subsequence of *)
(* the input, in the original order, of exactly the rows whose cell        *)
(* satisfies the condition: numeric comparison when the value is a number, *)
(* lexicographic string comparison otherwise; the result equals the input  *)
(* when every row satisfies it; and the call leaves the input unchanged.   *)
(***************************************************************************)
C4_ResultIsSelection ==
    (Called("apply_filter") /\ ret.kind = "return")
        => LET Sat(row) ==
                   IF IsNumeral(Cond.value[3])
                   THEN NumericSat(Cond.value[2], row[Cond.value[1]], Cond.value[3])
                   ELSE LexSat(Cond.value[2], row[Cond.value[1]], Cond.value[3])
           IN /\ ret.value = SelectSeq(data, Sat)
              /\ (\A i \in 1..Len(data) : Sat(data[i])) => ret.value = data

\* C4 amended, in full: the result is that selection in every state after the
\* call, and no step of a call changes the rows passed in.
C4_FilterSelects == []C4_ResultIsSelection /\ [][data' = data]_vars

\* A numeric condition that kept some rows of the input and dropped others.
C4_Witness ==
    /\ Called("apply_filter")
    /\ ret.kind = "return"
    /\ IsNumeral(Cond.value[3])
    /\ Cond.value[2] = <<">", "=">>
    /\ Len(data) = 2
    /\ ret.value = <<data[2]>>
    /\ data[1] # data[2]

UpperToLower ==
    {<<"A", "a">>, <<"G", "g">>, <<"I", "i">>, <<"M", "m">>, <<"N", "n">>, <<"V", "v">>}

Folded(s) ==
    [i \in 1..Len(s) |->
        IF \E p \in UpperToLower : p[1] = s[i]
        THEN (CHOOSE p \in UpperToLower : p[1] = s[i])[2]
        ELSE s[i]]

AggregateNames == {<<"a", "v", "g">>, <<"m", "i", "n">>, <<"m", "a", "x">>}

C6_ParseAggregation ==
    Called("parse_aggregation") =>
        LET s == aggregation_str
            hasEq == Occurs(s, <<"=">>)
            i == FirstAt(s, <<"=">>)
            name == Folded(Trimmed(SubSeq(s, 1, i - 1)))
            col == Trimmed(SubSeq(s, i + 1, Len(s)))
        IN /\ (ret.kind = "ValueError" /\ ret.error = "MalformedAggregation") <=> ~hasEq
           /\ (ret.kind = "ValueError" /\ ret.error = "UnsupportedFunction")
                  <=> (hasEq /\ name \notin AggregateNames)
           /\ (hasEq /\ name \in AggregateNames)
                  => ret.kind = "return" /\ ret.value = <<name, col>>
           /\ ret.kind \in {"return", "ValueError"}

\* "MIN =c": upper case and a blank before the '='.
C6_Witness ==
    /\ Called("parse_aggregation")
    /\ aggregation_str = <<"M", "I", "N", " ", "=", "c">>
    /\ ret.kind = "return"
    /\ ret.value = << <<"m", "i", "n">>, <<"c">> >>

(***************************************************************************)
(* C7: no partial result on a bad cell.  apply_filter with a numeric value *)
(* exits when any row's cell under the column is not a number, wherever    *)
(* the row is and whatever matched before it; apply_aggregation exits when *)
(* any row's cell under the column is not a number; the cell reported is   *)
(* that of the first such row.                                             *)
(***************************************************************************)
BadRows(column) == {i \in 1..Len(data) : ~IsNumeral(data[i][column])}

C7_BadCellIsFatal ==
    /\ (FilterRan /\ IsNumeral(Cond.value[3]) /\ BadRows(Cond.value[1]) # {})
           => /\ ret.kind = "SystemExit"
              /\ ret.error = "NonNumericCell"
              /\ ret.arg = data[SetMin(BadRows(Cond.value[1]))][Cond.value[1]]
    /\ (AggregationRan /\ BadRows(Agg.value[2]) # {})
           => /\ ret.kind = "SystemExit"
              /\ ret.error = "NonNumericColumn"
              /\ ret.arg = data[SetMin(BadRows(Agg.value[2]))][Agg.value[2]]

\* The first row matches a>1, the second row's cell is "b": the call exits.
C7_Witness ==
    /\ FilterRan
    /\ condition_str = <<"a", ">", "1">>
    /\ Len(data) = 2
    /\ data[1][<<"a">>] = <<"2">>
    /\ data[2][<<"a">>] = <<"b">>
    /\ ret.kind = "SystemExit"

(***************************************************************************)
(* C8: on a non-empty dataset apply_filter and apply_aggregation exit with *)
(* the unknown-column error whenever the parsed column is not a key of the *)
(* first row, whatever the value and the cells are.                        *)
(***************************************************************************)
C8_UnknownColumnFirst ==
    /\ (Called("apply_filter") /\ Cond.kind = "return" /\ data # <<>>
            /\ Cond.value[1] \notin DOMAIN data[1])
           => /\ ret.kind = "SystemExit"
              /\ ret.error = "UnknownColumn"
              /\ ret.arg = Cond.value[1]
    /\ (Called("apply_aggregation") /\ Agg.kind = "return" /\ data # <<>>
            /\ Agg.value[2] \notin DOMAIN data[1])
           => /\ ret.kind = "SystemExit"
              /\ ret.error = "UnknownColumn"
              /\ ret.arg = Agg.value[2]

\* Column c is unknown, the value is a number and a cell of the rows is not.
C8_Witness ==
    /\ Called("apply_filter")
    /\ condition_str = <<"c", ">", "1">>
    /\ Len(data) = 2
    /\ data[2][<<"a">>] = <<"b">>
    /\ ret.kind = "SystemExit"
    /\ ret.error = "UnknownColumn"

(***************************************************************************)
(* C9: every run of the driver ends either with status 0 after printing    *)
(* one thing (the empty-file message, one aggregate line or the table) and *)
(* no error, or with a non-zero status, exactly one error message and no   *)
(* result output; an aggregate line is computed over the filtered rows.    *)
(* Stated as the claim has it, for runs whose filter, when given, is a     *)
(* numeric comparison on a column of the file and whose aggregation, when  *)
(* given, is a supported function of a column of the file; a traceback is  *)
(* not an error message.                                                   *)
(***************************************************************************)
PlainWhere ==
    Truthy(where) =>
        LET c == parse_condition(where.str) IN
        c.kind = "return" /\ c.value[1] \in Header /\ IsNumeral(c.value[3])

PlainAggregate ==
    Truthy(aggregate) =>
        LET a == parse_aggregation(aggregate.str) IN
        a.kind = "return" /\ a.value[2] \in Header

C9_RunEndsCleanly ==
    (pc = "done" /\ PlainWhere /\ PlainAggregate) =>
        \/ /\ status = 0
           /\ Len(stdout) = 1
           /\ stderr = <<>>
           /\ stdout[1].kind = "info" => data = <<>>
        \/ /\ status # 0
           /\ stdout = <<>>
           /\ Len(stderr) = 1
           /\ stderr[1].kind = "message"

(***************************************************************************)
(* C10: parse_condition never returns a triple whose column or value is    *)
(* empty after trimming: such expressions are rejected with a parse error. *)
(* Stated as the claim has it.                                             *)
(***************************************************************************)
C10_EmptyPartsRejected ==
    (Called("parse_condition") /\ ret.kind = "return")
        => ret.value[1] # <<>> /\ ret.value[3] # <<>>

====
